---- MODULE Spec2Model ----
(***************************************************************************)
(* iam-cf-generator (src/main.go): a one-shot command that lists IAM       *)
(* groups, policies or roles through the AWS API, decodes their policy     *)
(* documents and renders them through a text/template to standard output.  *)
(*                                                                         *)
(* Go strings are modelled as sequences of one-character strings, so that  *)
(* sanitize, url.QueryUnescape, json.Indent, indent and strconv.Itoa are   *)
(* computed character by character as the code computes them.  Standard    *)
(* output is the sequence of lines the template has written so far.        *)
(***************************************************************************)
EXTENDS Integers, Sequences, FiniteSets, TLC

VARIABLES
  args,      \* os.Args[1:]
  pc,        \* where the process is: main, config, list, fetch, render, exited
  getter,    \* the fetcher main selected
  resp,      \* the resources of the list response the fetcher loops over
  records,   \* the fetcher's accumulator, then the argument of render
  fetched,   \* history: what the API returned in each completed pass of the loop
  rendered,  \* iterations of the template's outer range that have completed
  stdout,    \* the lines written to os.Stdout
  exitCode,  \* the exit status, -1 while the process runs
  stderr,    \* what was logged to standard error
  names,     \* inputs of sanitize in the pure-function specification
  keys       \* its results

vars == <<args, pc, getter, resp, records, fetched, rendered, stdout, exitCode, stderr, names, keys>>

progVars == <<args, pc, getter, resp, records, fetched, rendered, stdout, exitCode, stderr>>

(***************************************************************************)
(* Bounds of the model.                                                    *)
(***************************************************************************)
\* Number of items (resources, attached policies, inline policies, tags) the
\* API returns in one run.
MaxItems == 3

\* Length of the names the pure-function specification feeds to sanitize.
MaxNameLen == 3

(***************************************************************************)
(* Strings.                                                                *)
(***************************************************************************)
Nil == "<nil>"

RECURSIVE Concat(_)
Concat(ss) == IF ss = <<>> THEN <<>> ELSE Head(ss) \o Concat(Tail(ss))

\* Injective sequences over S (the API lists a resource once).
InjSeqs(S) ==
  UNION {{s \in [1..n -> S] : \A i, j \in 1..n : s[i] = s[j] => i = j} :
         n \in 0..Cardinality(S)}

\* All sequences over S of length 1..n.
StringsUpTo(S, n) == UNION {[1..k -> S] : k \in 1..n}

\* strings.ContainsAny
ContainsAny(s, chars) == \E i \in 1..Len(s) : s[i] \in chars

\* strings.Split(s, sep) for a one-character separator: always at least one
\* segment, empty segments kept.
RECURSIVE SplitFrom(_, _, _)
SplitFrom(s, sep, cur) ==
  IF s = <<>> THEN <<cur>>
  ELSE IF Head(s) = sep THEN <<cur>> \o SplitFrom(Tail(s), sep, <<>>)
  ELSE SplitFrom(Tail(s), sep, Append(cur, Head(s)))

Split(s, sep) == SplitFrom(s, sep, <<>>)

\* strings.Join(ss, sep)
RECURSIVE Join(_, _)
Join(ss, sep) ==
  IF ss = <<>> THEN <<>>
  ELSE IF Len(ss) = 1 THEN ss[1]
  ELSE ss[1] \o sep \o Join(Tail(ss), sep)

LowerLetters ==
  <<"a","b","c","d","e","f","g","h","i","j","k","l","m",
    "n","o","p","q","r","s","t","u","v","w","x","y","z">>

UpperLetters ==
  <<"A","B","C","D","E","F","G","H","I","J","K","L","M",
    "N","O","P","Q","R","S","T","U","V","W","X","Y","Z">>

Digits == <<"0","1","2","3","4","5","6","7","8","9">>

\* strings.ToUpper on one ASCII character
ToUpper(c) ==
  IF \E i \in 1..Len(LowerLetters) : LowerLetters[i] = c
  THEN UpperLetters[CHOOSE i \in 1..Len(LowerLetters) : LowerLetters[i] = c]
  ELSE c

IsAlnum(c) ==
  \/ \E i \in 1..Len(LowerLetters) : c \in {LowerLetters[i], UpperLetters[i]}
  \/ \E i \in 1..Len(Digits) : c = Digits[i]

\* strconv.Itoa for a non-negative int
RECURSIVE Itoa(_)
Itoa(i) == IF i < 10 THEN <<Digits[i + 1]>> ELSE Itoa(i \div 10) \o <<Digits[(i % 10) + 1]>>

(***************************************************************************)
(* sanitize (src/main.go:268-284).  The result is ok with the built string,*)
(* or a panic: cu[0] on an empty segment is an index out of range.         *)
(***************************************************************************)
Separators == {"-", "_", "."}

\* The segments the two nested loops visit, in order: the name split on "-",
\* each part split on "_".
sanitizeSegments(n) ==
  LET ns == Split(n, "-")
  IN  Concat([i \in 1..Len(ns) |-> Split(ns[i], "_")])

\* One pass of the inner loop body on a non-empty segment.
sanitizeWrite(cu) ==
  <<ToUpper(cu[1])>> \o (IF Len(cu) > 1 THEN SubSeq(cu, 2, Len(cu)) ELSE <<>>)

sanitize(n) ==
  IF ~ContainsAny(n, Separators) THEN [ok |-> TRUE, val |-> n]
  ELSE LET segs == sanitizeSegments(n)
       IN  IF \E i \in 1..Len(segs) : segs[i] = <<>>
           THEN [ok |-> FALSE, val |-> <<>>]
           ELSE [ok |-> TRUE,
                 val |-> Concat([i \in 1..Len(segs) |-> sanitizeWrite(segs[i])])]

(***************************************************************************)
(* decodePolicy (src/main.go:23-37): url.QueryUnescape, then json.Indent   *)
(* with an empty prefix and a two-space indent.  The JSON scanner covers   *)
(* objects, arrays, strings without backslash escapes and unsigned integer *)
(* literals, which is what the documents of EncodedDocs are made of.       *)
(***************************************************************************)
HexDigits == <<"0","1","2","3","4","5","6","7","8","9","A","B","C","D","E","F">>

LowerHex == <<"a","b","c","d","e","f">>

IsHex(c) ==
  \/ \E i \in 1..Len(HexDigits) : HexDigits[i] = c
  \/ \E i \in 1..Len(LowerHex) : LowerHex[i] = c

\* unhex
HexVal(c) ==
  IF \E i \in 1..Len(HexDigits) : HexDigits[i] = c
  THEN (CHOOSE i \in 1..Len(HexDigits) : HexDigits[i] = c) - 1
  ELSE (CHOOSE i \in 1..Len(LowerHex) : LowerHex[i] = c) + 9

\* The character of a byte value, for the bytes JSON text is made of.
ByteChar(b) ==
  CASE b = 10 -> "\n"
    [] b = 32 -> " "
    [] b = 34 -> "\""
    [] b = 44 -> ","
    [] b = 45 -> "-"
    [] b = 58 -> ":"
    [] b = 91 -> "["
    [] b = 93 -> "]"
    [] b = 123 -> "{"
    [] b = 125 -> "}"
    [] b \in 48..57 -> Digits[b - 47]
    [] b \in 65..90 -> UpperLetters[b - 64]
    [] b \in 97..122 -> LowerLetters[b - 96]
    [] OTHER -> "?"

\* url.QueryUnescape: "%XX" is one byte, "+" is a space, a "%" that is not
\* followed by two hex digits is an EscapeError.
RECURSIVE QueryUnescape(_)
QueryUnescape(s) ==
  IF s = <<>> THEN [ok |-> TRUE, val |-> <<>>]
  ELSE IF Head(s) = "%"
  THEN IF Len(s) < 3 \/ ~IsHex(s[2]) \/ ~IsHex(s[3])
       THEN [ok |-> FALSE, val |-> <<>>]
       ELSE LET rest == QueryUnescape(SubSeq(s, 4, Len(s)))
            IN  [ok |-> rest.ok,
                 val |-> <<ByteChar(16 * HexVal(s[2]) + HexVal(s[3]))>> \o rest.val]
  ELSE LET rest == QueryUnescape(Tail(s))
       IN  [ok |-> rest.ok,
            val |-> <<IF Head(s) = "+" THEN " " ELSE Head(s)>> \o rest.val]

JsonSpace == {" ", "\n"}

IsDigit(c) == \E i \in 1..Len(Digits) : Digits[i] = c

Spaces(n) == [i \in 1..n |-> " "]

\* newline of encoding/json's indent.go: "\n", the prefix (empty), depth indents
JsonNewline(depth) == <<"\n">> \o Spaces(2 * depth)

JsonInit == [st |-> "beginValue", stack |-> <<>>, out |-> <<>>,
             needIndent |-> FALSE, depth |-> 0]

JsonError(z) == [z EXCEPT !.st = "error"]

\* The indent the loop of appendIndent owes before a byte that is not a
\* closing bracket.
JsonOwed(z) ==
  IF z.needIndent
  THEN [z EXCEPT !.needIndent = FALSE, !.depth = z.depth + 1,
                 !.out = z.out \o JsonNewline(z.depth + 1)]
  ELSE z

\* A literal byte (string or number content): copied.
JsonCopy(z, c, st) ==
  LET y == JsonOwed(z) IN [y EXCEPT !.st = st, !.out = y.out \o <<c>>]

\* "{" or "[": pushed, copied, and the indent is delayed so that an empty
\* object or array stays "{}" or "[]".
JsonOpen(z, c) ==
  LET y == JsonOwed(z)
  IN  [y EXCEPT !.st = IF c = "{" THEN "beginStringOrEmpty" ELSE "beginValueOrEmpty",
                !.stack = Append(y.stack, IF c = "{" THEN "key" ELSE "array"),
                !.out = y.out \o <<c>>, !.needIndent = TRUE]

\* "}" or "]": popped; on its own line unless the object or array is empty.
JsonClose(z, c) ==
  LET stack == SubSeq(z.stack, 1, Len(z.stack) - 1)
      st == IF stack = <<>> THEN "endTop" ELSE "endValue"
  IN  IF z.needIndent
      THEN [z EXCEPT !.st = st, !.stack = stack, !.needIndent = FALSE,
                     !.out = z.out \o <<c>>]
      ELSE [z EXCEPT !.st = st, !.stack = stack, !.depth = z.depth - 1,
                     !.out = z.out \o JsonNewline(z.depth - 1) \o <<c>>]

\* stateEndValue: what may follow a complete value.
JsonEndValue(z, c) ==
  IF z.stack = <<>>
  THEN IF c \in JsonSpace THEN [z EXCEPT !.st = "endTop", !.out = z.out \o <<c>>]
       ELSE JsonError(z)
  ELSE IF c \in JsonSpace THEN [z EXCEPT !.st = "endValue"]
  ELSE LET top == z.stack[Len(z.stack)]
       IN  CASE top = "key" /\ c = ":" ->
                  [z EXCEPT !.st = "beginValue", !.stack[Len(z.stack)] = "value",
                            !.out = z.out \o <<":", " ">>]
             [] top = "value" /\ c = "," ->
                  [z EXCEPT !.st = "beginString", !.stack[Len(z.stack)] = "key",
                            !.out = z.out \o <<",">> \o JsonNewline(z.depth)]
             [] top = "value" /\ c = "}" -> JsonClose(z, c)
             [] top = "array" /\ c = "," ->
                  [z EXCEPT !.st = "beginValue",
                            !.out = z.out \o <<",">> \o JsonNewline(z.depth)]
             [] top = "array" /\ c = "]" -> JsonClose(z, c)
             [] OTHER -> JsonError(z)

\* stateBeginValue
JsonBeginValue(z, c) ==
  CASE c \in {"{", "["} -> JsonOpen(z, c)
    [] c = "\"" -> JsonCopy(z, c, "inString")
    [] c = "0" -> JsonCopy(z, c, "inZero")
    [] IsDigit(c) /\ c # "0" -> JsonCopy(z, c, "inNumber")
    [] OTHER -> JsonError(z)

\* One byte through the scanner and the indenting loop.
JsonStep(z, c) ==
  CASE z.st = "error" -> z
    [] z.st = "inString" ->
         IF c = "\n" THEN JsonError(z)
         ELSE JsonCopy(z, c, IF c = "\"" THEN "endValue" ELSE "inString")
    [] z.st = "endTop" ->
         IF c \in JsonSpace THEN [z EXCEPT !.out = z.out \o <<c>>] ELSE JsonError(z)
    [] z.st = "inNumber" ->
         IF IsDigit(c) THEN JsonCopy(z, c, "inNumber") ELSE JsonEndValue(z, c)
    [] z.st \in {"inZero", "endValue"} -> JsonEndValue(z, c)
    [] z.st \in {"beginValue", "beginValueOrEmpty", "beginStringOrEmpty", "beginString"}
         /\ c \in JsonSpace -> z
    [] z.st = "beginValue" -> JsonBeginValue(z, c)
    [] z.st = "beginValueOrEmpty" ->
         IF c = "]" THEN JsonClose(z, c) ELSE JsonBeginValue(z, c)
    [] z.st = "beginStringOrEmpty" ->
         IF c = "}" THEN JsonClose(z, c)
         ELSE IF c = "\"" THEN JsonCopy(z, c, "inString") ELSE JsonError(z)
    [] z.st = "beginString" ->
         IF c = "\"" THEN JsonCopy(z, c, "inString") ELSE JsonError(z)

RECURSIVE JsonScan(_, _)
JsonScan(z, s) == IF s = <<>> THEN z ELSE JsonScan(JsonStep(z, Head(s)), Tail(s))

\* json.Indent(&out, src, "", "  "): an error unless src is one complete value.
JsonIndent(src) ==
  LET z == JsonScan(JsonInit, src)
      complete == \/ z.st = "endTop"
                  \/ z.st \in {"inNumber", "inZero"} /\ z.stack = <<>>
  IN  [ok |-> complete, val |-> IF complete THEN z.out ELSE <<>>]

decodePolicy(p) ==
  LET pdoc == QueryUnescape(p)
  IN  IF ~pdoc.ok THEN [ok |-> FALSE, val |-> <<>>] ELSE JsonIndent(pdoc.val)

(***************************************************************************)
(* Template functions indent and random (src/main.go:255-266).             *)
(***************************************************************************)
\* indent: every line of s, the first included, is prefixed by n spaces.
indent(s, n) ==
  LET lines == Split(s, "\n")
      spaces == Spaces(n)
      first == [lines EXCEPT ![1] = spaces \o lines[1]]
  IN  Join(first, <<"\n">> \o spaces)

\* The values rand.Int() may return.
RandomInts == {0, 7, 2025}

\* random: strconv.Itoa of a non-negative pseudo-random int.
random(i) == Itoa(i)

(***************************************************************************)
(* The inputs: command lines and API responses.                            *)
(***************************************************************************)
ArgLists == {<<>>, <<"groups">>, <<"policies">>, <<"roles">>, <<"users">>}

Kinds == {"groups", "policies", "roles"}

\* Names of groups, policies and roles: "AB", "a-b", "a--b".
ResourceNames == {<<"A","B">>, <<"a","-","b">>, <<"a","-","-","b">>}

InlineNames == {<<"p">>, <<"q">>}

Paths == {"/"}

Arns == {"arn:aws:iam::aws:policy/A", "arn:aws:iam::aws:policy/B"}

Descriptions == {Nil, "d"}

TagLists == {<<>>, <<[Key |-> "k", Value |-> "v"]>>}

MaxSessionDurations == {3600}

\* %7B%22Version%22%3A%222012-10-17%22%7D
DocVersion ==
  <<"%","7","B","%","2","2","V","e","r","s","i","o","n","%","2","2","%","3","A",
    "%","2","2","2","0","1","2","-","1","0","-","1","7","%","2","2","%","7","D">>

\* %7B%7D
DocEmpty == <<"%","7","B","%","7","D">>

\* %7B: an object that is never closed
DocTruncated == <<"%","7","B">>

\* %7: a truncated percent escape
DocBadEscape == <<"%","7">>

EncodedDocs == {DocVersion, DocEmpty, DocTruncated, DocBadEscape}

\* An API call returns an error or an output.
Err == [err |-> TRUE, val |-> <<>>]

Ok(v) == [err |-> FALSE, val |-> v]

GroupSummaries == [GroupName : ResourceNames, Path : Paths]

PolicySummaries ==
  [PolicyName : ResourceNames, Description : Descriptions, Path : Paths,
   Tags : TagLists]

RoleSummaries ==
  [RoleName : ResourceNames, Description : Descriptions,
   MaxSessionDuration : MaxSessionDurations, Path : Paths, Tags : TagLists,
   AssumeRolePolicyDocument : EncodedDocs]

SummaryName(r) ==
  IF "GroupName" \in DOMAIN r THEN r.GroupName
  ELSE IF "PolicyName" \in DOMAIN r THEN r.PolicyName ELSE r.RoleName

\* Items a resource of a list response stands for: itself and its tags.
SummaryItems(r) == 1 + (IF "Tags" \in DOMAIN r THEN Len(r.Tags) ELSE 0)

\* The list responses over the summaries S: no name twice, at most budget items.
RECURSIVE ListResponses(_, _, _)
ListResponses(S, budget, used) ==
  {<<>>} \cup
  UNION {{<<r>> \o rest :
            rest \in ListResponses(S, budget - SummaryItems(r), used \cup {SummaryName(r)})} :
         r \in {x \in S : SummaryItems(x) <= budget /\ SummaryName(x) \notin used}}

RECURSIVE SumLen(_, _)
SumLen(recs, f) ==
  IF recs = <<>> THEN 0
  ELSE (IF f \in DOMAIN Head(recs) THEN Len(Head(recs)[f]) ELSE 0) + SumLen(Tail(recs), f)

\* Items the API has returned so far in this run.
ItemsUsed ==
  Len(resp) + SumLen(resp, "Tags")
  + SumLen(records, "ManagedPolicyArns") + SumLen(records, "Policies")

ItemsLeft == MaxItems - ItemsUsed

\* ListAttachedGroupPolicies / ListAttachedRolePolicies
AttachedResults(budget) ==
  {Err} \cup {Ok([i \in 1..Len(s) |-> [PolicyArn |-> s[i]]]) :
              s \in {t \in InjSeqs(Arns) : Len(t) <= budget}}

\* ListGroupPolicies / ListRolePolicies
InlineListResults(budget) ==
  {Err} \cup {Ok(s) : s \in {t \in InjSeqs(InlineNames) : Len(t) <= budget}}

\* GetGroupPolicy / GetRolePolicy / GetPolicyVersion: an error or a document
GetResults == {Err} \cup {Ok(d) : d \in EncodedDocs}

(***************************************************************************)
(* setInlinePolicies (src/main.go:46-80 and 105-139): the list call, then  *)
(* for each name the get call and decodePolicy; the first error returns.   *)
(***************************************************************************)
RECURSIVE inlineLoop(_, _, _, _)
inlineLoop(pnames, gets, i, precs) ==
  IF i > Len(pnames) THEN [err |-> "", val |-> precs]
  ELSE IF gets[i].err THEN [err |-> "api", val |-> <<>>]
  ELSE LET pdoc == decodePolicy(gets[i].val)
       IN  IF ~pdoc.ok THEN [err |-> "decode", val |-> <<>>]
           ELSE inlineLoop(pnames, gets, i + 1,
                           Append(precs, [Name |-> pnames[i], PolicyDocument |-> pdoc.val]))

setInlinePolicies(lst, gets) ==
  IF lst.err THEN [err |-> "api", val |-> <<>>]
  ELSE inlineLoop(lst.val, gets, 1, <<>>)

\* A fetcher that prepends instead of appending.
attachedArnsReversed(att) == [i \in 1..Len(att) |-> att[Len(att) + 1 - i].PolicyArn]

\* The loop over AttachedPolicies that collects *p.PolicyArn.
attachedArns(att) == [i \in 1..Len(att) |-> att[i].PolicyArn]

(***************************************************************************)
(* The process.                                                            *)
(***************************************************************************)
Init ==
  /\ args \in ArgLists
  /\ pc = "main"
  /\ getter = "none"
  /\ resp = <<>>
  /\ records = <<>>
  /\ fetched = <<>>
  /\ rendered = 0
  /\ stdout = <<>>
  /\ exitCode = -1
  /\ stderr = "none"
  /\ names = <<>>
  /\ keys = <<>>

\* os.Exit(code) after a message on standard error: log.Fatal exits with 1,
\* a runtime panic with 2.
Exit(code, msg) ==
  /\ pc' = "exited"
  /\ exitCode' = code
  /\ stderr' = msg

Fatal(msg) == Exit(1, msg)

\* main, up to the choice of the getter (src/main.go:392-404).
Main ==
  /\ pc = "main"
  /\ IF Len(args) = 0
     THEN Exit(2, "panic: index out of range") /\ UNCHANGED getter
     ELSE IF args[1] \notin Kinds
     THEN Fatal("Invalid arg") /\ UNCHANGED getter
     ELSE /\ getter' = args[1]
          /\ pc' = "config"
          /\ UNCHANGED <<exitCode, stderr>>
  /\ UNCHANGED <<args, resp, records, fetched, rendered, stdout, names, keys>>

\* config.LoadDefaultConfig and iam.NewFromConfig (src/main.go:406-412).
LoadConfig ==
  /\ pc = "config"
  /\ \E ok \in BOOLEAN :
       IF ok THEN pc' = "list" /\ UNCHANGED <<exitCode, stderr>>
       ELSE Fatal("config")
  /\ UNCHANGED <<args, getter, resp, records, fetched, rendered, stdout, names, keys>>

\* The list call that opens getGroups, getPolicies or getRoles.
ListCall(kind, S) ==
  /\ pc = "list"
  /\ getter = kind
  /\ \E r \in {Err} \cup {Ok(l) : l \in ListResponses(S, MaxItems, {})} :
       IF r.err THEN Fatal("api") /\ UNCHANGED resp
       ELSE resp' = r.val /\ pc' = "fetch" /\ UNCHANGED <<exitCode, stderr>>
  /\ UNCHANGED <<args, getter, records, fetched, rendered, stdout, names, keys>>

ListGroups == ListCall("groups", GroupSummaries)

ListPolicies == ListCall("policies", PolicySummaries)

ListRoles == ListCall("roles", RoleSummaries)

\* What one pass of a fetcher's loop does with its outcome r.
LoopBody(r, got) ==
  /\ IF r.err # "" THEN Fatal(r.err) /\ UNCHANGED <<records, fetched>>
     ELSE /\ records' = Append(records, r.val)
          /\ fetched' = Append(fetched, got)
          /\ UNCHANGED <<pc, exitCode, stderr>>
  /\ UNCHANGED <<args, getter, resp, rendered, stdout, names, keys>>

\* The body of the loop of getGroups (src/main.go:150-171).
groupRecord(g, att, lst, gets) ==
  IF att.err THEN [err |-> "api", val |-> <<>>]
  ELSE LET inl == setInlinePolicies(lst, gets)
       IN  IF inl.err # "" THEN inl
           ELSE [err |-> "",
                 val |-> [Name |-> g.GroupName, Path |-> g.Path,
                          ManagedPolicyArns |-> attachedArns(att.val),
                          Policies |-> inl.val]]

FetchGroup ==
  /\ pc = "fetch"
  /\ getter = "groups"
  /\ Len(records) < Len(resp)
  /\ \E att \in AttachedResults(ItemsLeft) :
       \E lst \in InlineListResults(ItemsLeft - Len(att.val)) :
         \E gets \in [1..Len(lst.val) -> GetResults] :
           LoopBody(groupRecord(resp[Len(records) + 1], att, lst, gets),
                    [attached |-> att.val, inlineNames |-> lst.val, got |-> gets])

\* The body of the loop of getPolicies (src/main.go:185-208).
policyRecord(p, pver) ==
  IF pver.err THEN [err |-> "api", val |-> <<>>]
  ELSE LET pdoc == decodePolicy(pver.val)
       IN  IF ~pdoc.ok THEN [err |-> "decode", val |-> <<>>]
           ELSE [err |-> "",
                 val |-> [Name |-> p.PolicyName, Description |-> p.Description,
                          Path |-> p.Path, Tags |-> p.Tags,
                          PolicyDocument |-> pdoc.val]]

FetchPolicy ==
  /\ pc = "fetch"
  /\ getter = "policies"
  /\ Len(records) < Len(resp)
  /\ \E pver \in GetResults :
       LoopBody(policyRecord(resp[Len(records) + 1], pver), [got |-> <<pver>>])

\* The body of the loop of getRoles (src/main.go:220-250).
roleRecord(r, att, lst, gets) ==
  LET pdoc == decodePolicy(r.AssumeRolePolicyDocument)
  IN  IF ~pdoc.ok THEN [err |-> "decode", val |-> <<>>]
      ELSE IF att.err THEN [err |-> "api", val |-> <<>>]
      ELSE LET inl == setInlinePolicies(lst, gets)
           IN  IF inl.err # "" THEN inl
               ELSE [err |-> "",
                     val |-> [AssumeRolePolicyDocument |-> pdoc.val,
                              Description |-> r.Description,
                              ManagedPolicyArns |-> attachedArns(att.val),
                              MaxSessionDuration |-> r.MaxSessionDuration,
                              Name |-> r.RoleName, Path |-> r.Path,
                              Policies |-> inl.val, Tags |-> r.Tags]]

FetchRole ==
  /\ pc = "fetch"
  /\ getter = "roles"
  /\ Len(records) < Len(resp)
  /\ \E att \in AttachedResults(ItemsLeft) :
       \E lst \in InlineListResults(ItemsLeft - Len(att.val)) :
         \E gets \in [1..Len(lst.val) -> GetResults] :
           LoopBody(roleRecord(resp[Len(records) + 1], att, lst, gets),
                    [attached |-> att.val, inlineNames |-> lst.val, got |-> gets])

(***************************************************************************)
(* render (src/main.go:286-390).  A line of output is its kind (tag), the  *)
(* YAML key on it and the value the template printed after the key.        *)
(*   doc        "---"                  resources  "Resources:"             *)
(*   entry      "  <val>:"             type       "    Type: <val>"        *)
(*   properties "    Properties:"      prop       "      <key>: <val>"     *)
(*   item       "      - <val>"        itemprop   "      - <key>: <val>"   *)
(*   subprop    "        <key>: <val>" block      <val>, an indented text  *)
(*   blank      a line of <val> spaces                                     *)
(***************************************************************************)
Line(tag, key, val) == [tag |-> tag, key |-> key, val |-> val]

\* Columns the templates pass to indent.
IndentInline == 10

IndentDoc == 8

GroupType == "AWS::IAM::Group"

PolicyType == "AWS::IAM::Policy"

RoleType == "AWS::IAM::Role"

\* "---\nResources:", the text before the outer range.
Header == <<Line("doc", "", Nil), Line("resources", "Resources", Nil)>>

\* A template without the "if" around the ManagedPolicyArns block.
ManagedPolicyArnsLinesUnguarded(rec) ==
  <<Line("prop", "ManagedPolicyArns", Nil)>>
  \o [i \in 1..Len(rec.ManagedPolicyArns) |-> Line("item", "", rec.ManagedPolicyArns[i])]

\* {{- if and .ManagedPolicyArns }} ... {{- end }}
ManagedPolicyArnsLines(rec) ==
  IF Len(rec.ManagedPolicyArns) > 0
  THEN <<Line("prop", "ManagedPolicyArns", Nil)>>
       \o [i \in 1..Len(rec.ManagedPolicyArns) |-> Line("item", "", rec.ManagedPolicyArns[i])]
  ELSE <<>>

\* {{- if and .Policies }} ... {{- end }} of the Group and Role templates
PoliciesLines(rec) ==
  IF Len(rec.Policies) > 0
  THEN <<Line("prop", "Policies", Nil)>>
       \o Concat([i \in 1..Len(rec.Policies) |->
            <<Line("itemprop", "PolicyName", rec.Policies[i].Name),
              Line("subprop", "PolicyDocument", Nil),
              Line("block", "", indent(rec.Policies[i].PolicyDocument, IndentInline))>>])
  ELSE <<>>

TagLines(rec) ==
  Concat([i \in 1..Len(rec.Tags) |->
    <<Line("itemprop", "Key", rec.Tags[i].Key), Line("subprop", "Value", rec.Tags[i].Value)>>])

\* One iteration of the range of the GroupResources template (lines 302-321).
GroupEntry(rec, key) ==
  <<Line("entry", "", key), Line("type", "Type", GroupType),
    Line("properties", "Properties", Nil)>>
  \o ManagedPolicyArnsLines(rec)
  \o <<Line("prop", "Path", rec.Path)>>
  \o PoliciesLines(rec)
  \o <<Line("blank", "", 0)>>

\* A template that prints the policy's own name.
PolicyNameTextPlain(name, suffix) == name

\* PolicyName: {{.Name}}-{{random}} (line 332)
PolicyNameText(name, suffix) == name \o <<"-">> \o suffix

\* One iteration of the range of the PolicyResources template (lines 325-342);
\* suffix is what random returned.
PolicyEntry(rec, key, suffix) ==
  <<Line("entry", "", key), Line("type", "Type", PolicyType),
    Line("properties", "Properties", Nil)>>
  \o (IF rec.Description # Nil
      THEN <<Line("prop", "Description", rec.Description), Line("blank", "", 6)>>
      ELSE <<>>)
  \o <<Line("prop", "PolicyName", PolicyNameText(rec.Name, suffix)),
       Line("prop", "PolicyDocument", Nil),
       Line("block", "", indent(rec.PolicyDocument, IndentDoc))>>
  \o (IF Len(rec.Tags) > 0 THEN <<Line("prop", "Tags", Nil)>> \o TagLines(rec) ELSE <<>>)
  \o <<Line("blank", "", 0)>>

\* One iteration of the range of the RoleResources template (lines 346-380).
RoleEntry(rec, key) ==
  <<Line("entry", "", key), Line("type", "Type", RoleType),
    Line("properties", "Properties", Nil),
    Line("prop", "AssumeRolePolicyDocument", Nil),
    Line("block", "", indent(rec.AssumeRolePolicyDocument, IndentDoc))>>
  \o (IF rec.Description # Nil THEN <<Line("prop", "Description", rec.Description)>> ELSE <<>>)
  \o ManagedPolicyArnsLines(rec)
  \o (IF rec.MaxSessionDuration # 0
      THEN <<Line("prop", "MaxSessionDuration", rec.MaxSessionDuration)>> ELSE <<>>)
  \o <<Line("prop", "Path", rec.Path)>>
  \o (IF Len(rec.Tags) > 0
      THEN <<Line("prop", "Tags", Nil), Line("blank", "", 6)>> \o TagLines(rec) ELSE <<>>)
  \o PoliciesLines(rec)
  \o <<Line("blank", "", 0)>>

\* The template the type switch selects, applied to one record.
Entry(kind, rec, key, suffix) ==
  CASE kind = "groups" -> GroupEntry(rec, key)
    [] kind = "policies" -> PolicyEntry(rec, key, suffix)
    [] kind = "roles" -> RoleEntry(rec, key)

\* The fetcher's loop ends and returns; render parses the template and
\* Execute writes the text before the range.
RenderBegin ==
  /\ pc = "fetch"
  /\ Len(records) = Len(resp)
  /\ stdout' = stdout \o Header
  /\ pc' = "render"
  /\ UNCHANGED <<args, getter, resp, records, fetched, rendered, exitCode, stderr, names, keys>>

\* One iteration of the outer range.  Execute writes to os.Stdout as it goes:
\* "\n  " is out when sanitize is called, and a panic of sanitize comes back
\* from Execute as an error, which is fatal.
RenderEntry ==
  /\ pc = "render"
  /\ rendered < Len(records)
  /\ LET rec == records[rendered + 1]
         key == sanitize(rec.Name)
     IN  IF ~key.ok
         THEN /\ stdout' = Append(stdout, Line("blank", "", 2))
              /\ Fatal("template")
              /\ UNCHANGED rendered
         ELSE /\ \E i \in RandomInts :
                   stdout' = stdout \o Entry(getter, rec, key.val, random(i))
              /\ rendered' = rendered + 1
              /\ UNCHANGED <<pc, exitCode, stderr>>
  /\ UNCHANGED <<args, getter, resp, records, fetched, names, keys>>

\* The range is over: Execute and render return, and main returns.
RenderEnd ==
  /\ pc = "render"
  /\ rendered = Len(records)
  /\ Exit(0, stderr)
  /\ UNCHANGED <<args, getter, resp, records, fetched, rendered, stdout, names, keys>>

Next ==
  \/ Main
  \/ LoadConfig
  \/ ListGroups
  \/ ListPolicies
  \/ ListRoles
  \/ FetchGroup
  \/ FetchPolicy
  \/ FetchRole
  \/ RenderBegin
  \/ RenderEntry
  \/ RenderEnd

Spec == Init /\ [][Next]_vars

(***************************************************************************)
(* sanitize as a pure function: two names of at most MaxNameLen characters *)
(* and the keys sanitize gives them.                                       *)
(***************************************************************************)
NameChars == {"a", "A", "-", "_", "."}

Names == StringsUpTo(NameChars, MaxNameLen)

InitSanitize ==
  /\ names \in Names \X Names
  /\ keys = <<>>
  /\ args = <<>>
  /\ pc = "sanitize"
  /\ getter = "none"
  /\ resp = <<>>
  /\ records = <<>>
  /\ fetched = <<>>
  /\ rendered = 0
  /\ stdout = <<>>
  /\ exitCode = -1
  /\ stderr = "none"

Sanitize ==
  /\ pc = "sanitize"
  /\ keys = <<>>
  /\ keys' = <<sanitize(names[1]), sanitize(names[2])>>
  /\ UNCHANGED <<progVars, names>>

NextSanitize == Sanitize

SpecSanitize == InitSanitize /\ [][NextSanitize]_vars

(***************************************************************************)
(* Reading standard output back: the entries of the Resources mapping.     *)
(***************************************************************************)
EntryIdx == {i \in 1..Len(stdout) : stdout[i].tag = "entry"}

NumEntries == Cardinality(EntryIdx)

\* The line on which the k-th entry starts, and the line on which it ends.
EntryStart(k) == CHOOSE i \in EntryIdx : Cardinality({j \in EntryIdx : j < i}) = k - 1

EntryEnd(k) == IF k < NumEntries THEN EntryStart(k + 1) - 1 ELSE Len(stdout)

OutEntry(k) == SubSeq(stdout, EntryStart(k), EntryEnd(k))

EntryKey(k) == stdout[EntryStart(k)].val

HasLine(e, tag, key) == \E i \in 1..Len(e) : e[i].tag = tag /\ e[i].key = key

IsItem(l) == l.tag = "item"

\* The values of the "- <val>" lines of an entry, in order.
ItemVals(e) == LET items == SelectSeq(e, IsItem) IN [i \in 1..Len(items) |-> items[i].val]

IsInlineName(l) == l.tag = "itemprop" /\ l.key = "PolicyName"

\* The values of the "- PolicyName: <val>" lines of an entry, in order.
InlineNameVals(e) ==
  LET ls == SelectSeq(e, IsInlineName) IN [i \in 1..Len(ls) |-> ls[i].val]

\* The value of the "<key>: <val>" property line of an entry.
PropVal(e, key) == e[CHOOSE i \in 1..Len(e) : e[i].tag = "prop" /\ e[i].key = key].val

AllDigits(s) == Len(s) > 0 /\ \A i \in 1..Len(s) : IsDigit(s[i])

\* render has been called: its template has written the header.
RenderCalled == Len(stdout) > 0

(***************************************************************************)
(* C1.  Every run ends either with every record of the requested kind on   *)
(* standard output and exit status 0, or with a non-zero exit status and   *)
(* nothing at all on standard output.                                      *)
(***************************************************************************)
C1_AllOrNothing ==
  pc = "exited" =>
    \/ exitCode = 0 /\ Len(records) = Len(resp) /\ NumEntries = Len(records)
    \/ exitCode # 0 /\ Len(stdout) = 0

(***************************************************************************)
(* C2.  Started with no argument, or with a first argument that is none of *)
(* groups, policies and roles, the process ends with the fatal usage error,*)
(* a non-zero exit status and nothing on standard output.                  *)
(***************************************************************************)
C2_UsageError ==
  (pc = "exited" /\ (Len(args) = 0 \/ args[1] \notin Kinds)) =>
     stderr = "Invalid arg" /\ exitCode # 0 /\ Len(stdout) = 0

(***************************************************************************)
(* C3.  When render has been given a non-empty list and the process has    *)
(* ended, the output holds exactly one entry per record, in the order of   *)
(* the records.                                                            *)
(***************************************************************************)
C3_OneEntryPerRecord ==
  (pc = "exited" /\ RenderCalled /\ Len(records) > 0) =>
     /\ NumEntries = Len(records)
     /\ \A k \in 1..NumEntries : EntryKey(k) = sanitize(records[k].Name).val

(***************************************************************************)
(* C4.  sanitize returns an alphanumeric identifier: no hyphen, underscore *)
(* or dot is left in it, and a name without any of them comes back         *)
(* unchanged.                                                              *)
(***************************************************************************)
C4_SanitizeAlphanumeric ==
  keys # <<>> =>
    \A k \in 1..2 :
      /\ keys[k].ok
      /\ \A i \in 1..Len(keys[k].val) : IsAlnum(keys[k].val[i])
      /\ ~ContainsAny(names[k], Separators) => keys[k].val = names[k]

(***************************************************************************)
(* C5.  Every entry on standard output has the properties its kind         *)
(* requires: Type and Path for a group; Type, Path and PolicyDocument for  *)
(* a policy; Type, AssumeRolePolicyDocument and Path for a role.           *)
(***************************************************************************)
RequiredProps ==
  CASE getter = "groups" -> {"Path"}
    [] getter = "policies" -> {"Path", "PolicyDocument"}
    [] getter = "roles" -> {"AssumeRolePolicyDocument", "Path"}
    [] OTHER -> {}

C5_RequiredProperties ==
  \A k \in 1..NumEntries :
    /\ HasLine(OutEntry(k), "type", "Type")
    /\ \A key \in RequiredProps : HasLine(OutEntry(k), "prop", key)

(***************************************************************************)
(* C6.  The entry of a group or role whose managed-policy list is empty    *)
(* has no ManagedPolicyArns key; the entry of one whose list is not empty  *)
(* has the key, followed by exactly the record's identifiers in order.     *)
(***************************************************************************)
C6_ManagedPolicyArns ==
  getter \in {"groups", "roles"} =>
    \A k \in 1..NumEntries :
      /\ HasLine(OutEntry(k), "prop", "ManagedPolicyArns")
           <=> Len(records[k].ManagedPolicyArns) > 0
      /\ ItemVals(OutEntry(k)) = records[k].ManagedPolicyArns

\* A group or role with two different attached policies has been rendered and
\* the process has exited successfully.
C6_Witness ==
  /\ getter \in {"groups", "roles"}
  /\ exitCode = 0
  /\ \E k \in 1..NumEntries : Len(records[k].ManagedPolicyArns) = 2
                              /\ records[k].ManagedPolicyArns[1] # records[k].ManagedPolicyArns[2]

(***************************************************************************)
(* C7 as stated.  Group and role entries have no name property, and every  *)
(* PolicyName on standard output, that of a managed policy entry and that  *)
(* of an inline policy of a group or role alike, is the source policy's    *)
(* name followed by "-" and a numeric suffix.                              *)
(***************************************************************************)
NameProps == {"GroupName", "RoleName", "Name"}

SuffixedName(val, name) ==
  /\ Len(val) > Len(name) + 1
  /\ SubSeq(val, 1, Len(name)) = name
  /\ val[Len(name) + 1] = "-"
  /\ AllDigits(SubSeq(val, Len(name) + 2, Len(val)))

NoNameProperty(k) == \A key \in NameProps : ~HasLine(OutEntry(k), "prop", key)

C7_EveryPolicyNameSuffixed ==
  \A k \in 1..NumEntries :
    IF getter = "policies"
    THEN SuffixedName(PropVal(OutEntry(k), "PolicyName"), records[k].Name)
    ELSE /\ NoNameProperty(k)
         /\ Len(InlineNameVals(OutEntry(k))) = Len(records[k].Policies)
         /\ \A j \in 1..Len(records[k].Policies) :
              SuffixedName(InlineNameVals(OutEntry(k))[j], records[k].Policies[j].Name)

(***************************************************************************)
(* C7 as amended.  Group and role entries have no name property; the       *)
(* PolicyName of every managed policy entry is the source policy's name    *)
(* followed by "-" and a numeric suffix, so it differs from that name; the *)
(* PolicyName of an inline policy of a group or role is the source inline  *)
(* policy's name, unchanged.                                               *)
(***************************************************************************)
C7_ManagedPolicyNameSuffixed ==
  \A k \in 1..NumEntries :
    IF getter = "policies"
    THEN /\ SuffixedName(PropVal(OutEntry(k), "PolicyName"), records[k].Name)
         /\ PropVal(OutEntry(k), "PolicyName") # records[k].Name
    ELSE /\ NoNameProperty(k)
         /\ InlineNameVals(OutEntry(k))
              = [j \in 1..Len(records[k].Policies) |-> records[k].Policies[j].Name]

\* Two managed policies have been rendered.
C7_Witness == getter = "policies" /\ exitCode = 0 /\ NumEntries = 2

(***************************************************************************)
(* C8.  Once render has been called (every record then has a non-empty     *)
(* name and decoded documents), the process ends without a template error, *)
(* a panic or a fatal exit.                                                *)
(***************************************************************************)
C8_RenderTotal ==
  (pc = "exited" /\ RenderCalled) => exitCode = 0 /\ stderr = "none"

(***************************************************************************)
(* C9.  A fetcher that returns has one record per resource of the list     *)
(* response, in order; a group or role record's ManagedPolicyArns are the  *)
(* identifiers of its attached-policy response, in order, and its inline   *)
(* policies are one per name of its inline-policy-name response, in order. *)
(***************************************************************************)
C9_FetchedRecords ==
  /\ Len(records) <= Len(resp)
  /\ Len(fetched) = Len(records)
  /\ pc = "render" \/ exitCode = 0 \/ RenderCalled => Len(records) = Len(resp)
  /\ \A k \in 1..Len(records) :
       /\ records[k].Name = SummaryName(resp[k])
       /\ getter \in {"groups", "roles"} =>
            /\ Len(records[k].ManagedPolicyArns) = Len(fetched[k].attached)
            /\ \A i \in 1..Len(fetched[k].attached) :
                 records[k].ManagedPolicyArns[i] = fetched[k].attached[i].PolicyArn
            /\ Len(records[k].Policies) = Len(fetched[k].inlineNames)
            /\ \A j \in 1..Len(fetched[k].inlineNames) :
                 records[k].Policies[j].Name = fetched[k].inlineNames[j]

\* A fetcher has returned a group or role record with two attached policies.
C9_Witness ==
  /\ pc = "render"
  /\ getter \in {"groups", "roles"}
  /\ \E k \in 1..Len(records) : Len(records[k].ManagedPolicyArns) = 2
  /\ Len(resp) > 0

(***************************************************************************)
(* C10.  Two entries of one rendered document whose records have different *)
(* names have different keys.                                              *)
(***************************************************************************)
C10_DistinctKeys ==
  \A k1, k2 \in 1..NumEntries :
    records[k1].Name # records[k2].Name => EntryKey(k1) # EntryKey(k2)

====
